---- MODULE Spec2Model ----
(***************************************************************************)
(* Model of pkg/k8s/portforward.go: the constructors NewPortForward and    *)
(* NewProxyMetricsForward, the session constructor newPortForward with     *)
(* getEphemeralPort, and the life of a PortForward session (Run, Ready,    *)
(* Stop).  Run hands stopCh and readyCh to client-go's port forwarder; the *)
(* forwarder's steps (dial, listen, close the ready channel, wait for stop *)
(* or connection loss) are modelled from sections 4.3, 4.4 and 5 of the    *)
(* design document.  A session is started at most once (section 3:         *)
(* "Run() exactly once"); Stop may be called any number of times.          *)
(***************************************************************************)
EXTENDS Integers, Sequences, FiniteSets, TLC

VARIABLES
    arg,      \* the input of the constructor call under study
    out,      \* the outcome of the last constructor call: error kind and session
    sess,     \* session -> the PortForward struct (podName, localPort, remotePort)
    stopCh,   \* session -> "nil" | "open" | "closed"
    readyCh,  \* session -> "nil" | "open" | "closed"
    pc,       \* session -> position of the Run() task
    ret,      \* session -> return value of Run()
    conn,     \* session -> Run() holds the upgraded connection
    lsn,      \* session -> Run() holds the local listener on localPort
    dials,    \* session -> number of upgrade attempts made by Run()
    waiter,   \* session -> the caller receiving from Ready(): "blocked" | "released"
    panic,    \* "none", or the channel whose second close crashed the process
    probes    \* number of listen sockets of getEphemeralPort that are still open

vars ==
    <<arg, out, sess, stopCh, readyCh, pc, ret, conn, lsn, dials, waiter, panic,
      probes>>

---------------------------------------------------------------------------
(* Bounds of the model *)

MaxPods == 2
MaxNameLen == 2
MaxContainers == 2
MaxPorts == 2
MaxDials == 2

(* Value sets *)

Sessions == {"A", "B"}
Chars == {"a", "b"}
Phases == {"Pending", "Running"}
UserPorts == {8080}
EphemeralPorts == {49152}
RemotePorts == {4191}
AdminPorts == {4191, 9998}
ContainerNames == {"linkerd-proxy", "linkerd-init", "app"}
PortNames == {"linkerd-admin", "http"}

ProxyContainerName == "linkerd-proxy"
ProxyAdminPortName == "linkerd-admin"

SeqsUpTo(S, n) == UNION {[1..k -> S] : k \in 0..n}
Distinct(q) == \A i, j \in 1..Len(q) : i # j => q[i].name # q[j].name

PodNames == SeqsUpTo(Chars, MaxNameLen) \ {<<>>}
Prefixes == SeqsUpTo(Chars, MaxNameLen)
Pods == [name : PodNames, phase : Phases]
PodLists == {q \in SeqsUpTo(Pods, MaxPods) : Distinct(q)}

ContainerPorts == [name : PortNames, containerPort : AdminPorts]
PortLists == {q \in SeqsUpTo(ContainerPorts, MaxPorts) : Distinct(q)}
Containers == [name : ContainerNames, ports : PortLists]
ContainerLists == {q \in SeqsUpTo(Containers, MaxContainers) : Distinct(q)}
ProxyPods == [name : {<<"a">>}, phase : Phases, containers : ContainerLists]

NoContainer == [name |-> "", ports |-> <<>>]
NoPort == [name |-> "", containerPort |-> 0]
NoPod == [name |-> <<>>, phase |-> "Pending", containers |-> <<>>]
NoArg == [op |-> "none", listOk |-> TRUE, items |-> <<>>, deployName |-> <<>>,
          localPort |-> 0, remotePort |-> 0, pod |-> NoPod]
NoOut == [op |-> "none", err |-> "none", pf |-> "nil", alloc |-> "none"]
NoSession == [made |-> FALSE, podName |-> <<>>, localPort |-> 0, remotePort |-> 0]

---------------------------------------------------------------------------
(* Pod selection: NewPortForward *)

\* strings.HasPrefix(s, p)
HasPrefix(s, p) == Len(p) <= Len(s) /\ \A i \in 1..Len(p) : s[i] = p[i]

RECURSIVE SelectAnyPhasePod(_, _, _)
SelectAnyPhasePod(items, deployName, i) ==
    IF i > Len(items) THEN <<>>
    ELSE IF HasPrefix(items[i].name, deployName)
         THEN items[i].name
         ELSE SelectAnyPhasePod(items, deployName, i + 1)

\* the loop of NewPortForward from item i on: the name of the first pod that is
\* Running and whose name has the prefix, "" (the empty sequence) when none
RECURSIVE SelectRunningPod(_, _, _)
SelectRunningPod(items, deployName, i) ==
    IF i > Len(items) THEN <<>>
    ELSE IF items[i].phase = "Running" /\ HasPrefix(items[i].name, deployName)
         THEN items[i].name
         ELSE SelectRunningPod(items, deployName, i + 1)

---------------------------------------------------------------------------
(* Session construction *)

PortFree(p) == \A s \in Sessions : ~(lsn[s] /\ sess[s].localPort = p)

getEphemeralPortLeaksOnAddrError ==
    {[port |-> 0, err |-> "listen", open |-> 0], [port |-> 0, err |-> "addr", open |-> 1]}
      \cup {[port |-> p, err |-> "none", open |-> 0] :
                p \in {q \in EphemeralPorts : PortFree(q)}}

\* getEphemeralPort: the listen fails (no socket was opened), the bound address
\* is no TCP address, or the port the system assigned (free at that instant) is
\* returned; open is the number of its listen sockets left open on return: the
\* deferred ln.Close() runs on both paths that opened one
getEphemeralPort ==
    {[port |-> 0, err |-> "listen", open |-> 0], [port |-> 0, err |-> "addr", open |-> 0]}
      \cup {[port |-> p, err |-> "none", open |-> 0] :
                p \in {q \in EphemeralPorts : PortFree(q)}}

\* a constructor returns nil and the error e before the allocator is reached
Fail(op, e) ==
    /\ out' = [op |-> op, err |-> e, pf |-> "nil", alloc |-> "none"]
    /\ UNCHANGED <<sess, stopCh, readyCh, probes>>

\* newPortForward returns nil and the error a of getEphemeralPort
FailAlloc(op, a) ==
    /\ out' = [op |-> op, err |-> "alloc", pf |-> "nil", alloc |-> a]
    /\ UNCHANGED <<sess, stopCh, readyCh>>

\* the struct literal of newPortForward; alloc tells whether the allocator ran
Build(op, s, podName, localPort, remotePort, alloc) ==
    /\ out' = [op |-> op, err |-> "none", pf |-> s, alloc |-> alloc]
    /\ sess' = [sess EXCEPT ![s] = [made |-> TRUE, podName |-> podName,
                                    localPort |-> localPort, remotePort |-> remotePort]]
    /\ stopCh' = [stopCh EXCEPT ![s] = "open"]
    /\ readyCh' = [readyCh EXCEPT ![s] = "open"]

newPortForwardAutoWithoutStopCh(op, s, podName, localPort, remotePort) ==
    IF localPort = 0
    THEN \E r \in getEphemeralPort :
            /\ probes' = probes + r.open
            /\ IF r.err # "none" THEN FailAlloc(op, r.err)
               ELSE /\ out' = [op |-> op, err |-> "none", pf |-> s, alloc |-> "ok"]
                    /\ sess' = [sess EXCEPT ![s] =
                                  [made |-> TRUE, podName |-> podName,
                                   localPort |-> r.port, remotePort |-> remotePort]]
                    /\ readyCh' = [readyCh EXCEPT ![s] = "open"]
                    /\ UNCHANGED stopCh
    ELSE /\ probes' = probes
         /\ Build(op, s, podName, localPort, remotePort, "none")

newPortForwardAlwaysAllocates(op, s, podName, localPort, remotePort) ==
    \E r \in getEphemeralPort :
        /\ probes' = probes + r.open
        /\ IF r.err # "none" THEN FailAlloc(op, r.err)
           ELSE Build(op, s, podName, r.port, remotePort, "ok")

newPortForward(op, s, podName, localPort, remotePort) ==
    IF localPort = 0
    THEN \E r \in getEphemeralPort :
            /\ probes' = probes + r.open
            /\ IF r.err # "none" THEN FailAlloc(op, r.err)
               ELSE Build(op, s, podName, r.port, remotePort, "ok")
    ELSE /\ probes' = probes
         /\ Build(op, s, podName, localPort, remotePort, "none")

NewPortForwardAllocatesFirst(s, listOk, items, deployName, localPort, remotePort) ==
    IF ~listOk THEN Fail("NewPortForward", "list")
    ELSE LET podName == SelectRunningPod(items, deployName, 1) IN
         IF podName # <<>>
         THEN newPortForward("NewPortForward", s, podName, localPort, remotePort)
         ELSE IF localPort # 0 THEN Fail("NewPortForward", "notfound")
         ELSE \E r \in getEphemeralPort :
                 /\ probes' = probes + r.open
                 /\ out' = [op |-> "NewPortForward", err |-> "notfound",
                            pf |-> "nil", alloc |-> IF r.err = "none" THEN "ok" ELSE r.err]
                 /\ UNCHANGED <<sess, stopCh, readyCh>>

NewPortForwardListAsNotFound(s, listOk, items, deployName, localPort, remotePort) ==
    LET podName == IF listOk THEN SelectRunningPod(items, deployName, 1) ELSE <<>> IN
    IF podName = <<>> THEN Fail("NewPortForward", "notfound")
    ELSE newPortForward("NewPortForward", s, podName, localPort, remotePort)

NewPortForward(s, listOk, items, deployName, localPort, remotePort) ==
    IF ~listOk THEN Fail("NewPortForward", "list")
    ELSE LET podName == SelectRunningPod(items, deployName, 1) IN
         IF podName = <<>> THEN Fail("NewPortForward", "notfound")
         ELSE newPortForward("NewPortForward", s, podName, localPort, remotePort)

---------------------------------------------------------------------------
(* Admin port selection: NewProxyMetricsForward *)

\* the loops of NewProxyMetricsForward: the first element of q from i on with
\* the name, the zero value when there is none
RECURSIVE FirstNamed(_, _, _, _)
FirstNamed(q, name, zero, i) ==
    IF i > Len(q) THEN zero
    ELSE IF q[i].name = name THEN q[i]
         ELSE FirstNamed(q, name, zero, i + 1)

\* the container named ProxyContainerName, and whether there is one
ProxyContainer(containers) ==
    LET c == FirstNamed(containers, ProxyContainerName, NoContainer, 1) IN
    [ok |-> c.name = ProxyContainerName, container |-> c]

AdminPortOrFirst(ports) ==
    LET p == FirstNamed(ports, ProxyAdminPortName, NoPort, 1) IN
    IF p.name = ProxyAdminPortName THEN [ok |-> TRUE, port |-> p]
    ELSE IF ports # <<>> THEN [ok |-> TRUE, port |-> ports[1]]
         ELSE [ok |-> FALSE, port |-> p]

\* the port named ProxyAdminPortName, and whether there is one
AdminPort(ports) ==
    LET p == FirstNamed(ports, ProxyAdminPortName, NoPort, 1) IN
    [ok |-> p.name = ProxyAdminPortName, port |-> p]

NewProxyMetricsForwardTrustsCaller(s, pod) ==
    LET c == ProxyContainer(pod.containers) IN
    IF ~c.ok THEN Fail("NewProxyMetricsForward", "nocontainer")
    ELSE LET p == AdminPort(c.container.ports) IN
         IF ~p.ok THEN Fail("NewProxyMetricsForward", "noport")
         ELSE newPortForward("NewProxyMetricsForward", s, pod.name, 0,
                             p.port.containerPort)

NewProxyMetricsForward(s, pod) ==
    IF pod.phase # "Running" THEN Fail("NewProxyMetricsForward", "notrunning")
    ELSE LET c == ProxyContainer(pod.containers) IN
         IF ~c.ok THEN Fail("NewProxyMetricsForward", "nocontainer")
         ELSE LET p == AdminPort(c.container.ports) IN
              IF ~p.ok THEN Fail("NewProxyMetricsForward", "noport")
              ELSE newPortForward("NewProxyMetricsForward", s, pod.name, 0,
                                  p.port.containerPort)

---------------------------------------------------------------------------
(* The life of a session *)

InProgress == {"fw", "dialed", "bound", "waiting"}

Live(s) == sess[s].made /\ panic = "none"

\* an unrecovered panic ends the process: every running task dies and the
\* system closes the sockets the process held
Panic(ch) ==
    /\ panic' = ch
    /\ pc' = [s \in Sessions |-> IF pc[s] \in InProgress THEN "killed" ELSE pc[s]]
    /\ conn' = [s \in Sessions |-> FALSE]
    /\ lsn' = [s \in Sessions |-> FALSE]

StopWaitsForRun(s) ==
    /\ Live(s)
    /\ pc[s] \notin InProgress
    /\ IF stopCh[s] = "closed"
       THEN Panic("stopCh") /\ UNCHANGED stopCh
       ELSE /\ stopCh' = [stopCh EXCEPT ![s] = "closed"]
            /\ UNCHANGED <<panic, pc, conn, lsn>>
    /\ UNCHANGED <<probes, arg, out, sess, readyCh, ret, dials, waiter>>

StopReleasesWaiters(s) ==
    /\ Live(s)
    /\ IF stopCh[s] = "closed"
       THEN Panic("stopCh") /\ UNCHANGED <<stopCh, readyCh>>
       ELSE /\ stopCh' = [stopCh EXCEPT ![s] = "closed"]
            /\ readyCh' = [readyCh EXCEPT ![s] = "closed"]
            /\ UNCHANGED <<panic, pc, conn, lsn>>
    /\ UNCHANGED <<probes, arg, out, sess, ret, dials, waiter>>

\* Stop: close(pf.stopCh)
Stop(s) ==
    /\ Live(s)
    /\ IF stopCh[s] = "closed"
       THEN Panic("stopCh") /\ UNCHANGED stopCh
       ELSE /\ stopCh' = [stopCh EXCEPT ![s] = "closed"]
            /\ UNCHANGED <<panic, pc, conn, lsn>>
    /\ UNCHANGED <<probes, arg, out, sess, readyCh, ret, dials, waiter>>

RunReturnSignalsReady(s, e) ==
    /\ pc' = [pc EXCEPT ![s] = "done"]
    /\ ret' = [ret EXCEPT ![s] = e]
    /\ readyCh' = [readyCh EXCEPT ![s] = IF e = "nil" THEN @ ELSE "closed"]

RunReturnRearms(s, e) ==
    /\ pc' = [pc EXCEPT ![s] = "done"]
    /\ ret' = [ret EXCEPT ![s] = e]
    /\ readyCh' = [readyCh EXCEPT ![s] = "open"]

RunReturnRetry(s, e) ==
    /\ pc' = [pc EXCEPT ![s] = IF e = "nil" THEN "done" ELSE "fw"]
    /\ ret' = [ret EXCEPT ![s] = IF e = "nil" THEN e ELSE @]
    /\ UNCHANGED readyCh

\* Run returns e
RunReturn(s, e) ==
    /\ pc' = [pc EXCEPT ![s] = "done"]
    /\ ret' = [ret EXCEPT ![s] = e]
    /\ UNCHANGED readyCh

RunSetupSignalsReady(s) ==
    /\ Live(s)
    /\ pc[s] = "idle"
    /\ \E o \in {"ok", "roundtripper", "new"} :
          IF o = "ok"
          THEN /\ pc' = [pc EXCEPT ![s] = "fw"]
               /\ readyCh' = [readyCh EXCEPT ![s] = "closed"]
               /\ UNCHANGED ret
          ELSE RunReturn(s, o)
    /\ UNCHANGED <<probes, arg, out, sess, stopCh, conn, lsn, dials, waiter, panic>>

RunSetupRenegotiatesPort(s) ==
    /\ Live(s)
    /\ pc[s] = "idle"
    /\ \E o \in {"ok", "roundtripper", "new"} :
          IF o = "ok"
          THEN pc' = [pc EXCEPT ![s] = "fw"] /\ UNCHANGED <<ret, readyCh>>
          ELSE RunReturn(s, o)
    /\ \E p \in EphemeralPorts : sess' = [sess EXCEPT ![s].localPort = p]
    /\ UNCHANGED <<probes, arg, out, stopCh, conn, lsn, dials, waiter, panic>>

\* Run up to the call of ForwardPorts: spdy.RoundTripperFor and portforward.New
\* each succeed or make Run return their error
RunSetup(s) ==
    /\ Live(s)
    /\ pc[s] = "idle"
    /\ \E o \in {"ok", "roundtripper", "new"} :
          IF o = "ok"
          THEN pc' = [pc EXCEPT ![s] = "fw"] /\ UNCHANGED <<ret, readyCh>>
          ELSE RunReturn(s, o)
    /\ UNCHANGED <<probes, arg, out, sess, stopCh, conn, lsn, dials, waiter, panic>>

\* ForwardPorts: the upgrade handshake
FwdDial(s) ==
    /\ Live(s)
    /\ pc[s] = "fw"
    /\ dials[s] < MaxDials
    /\ dials' = [dials EXCEPT ![s] = @ + 1]
    /\ \/ /\ conn' = [conn EXCEPT ![s] = TRUE]
          /\ pc' = [pc EXCEPT ![s] = "dialed"]
          /\ UNCHANGED <<ret, readyCh>>
       \/ /\ RunReturn(s, "dial")
          /\ UNCHANGED conn
    /\ UNCHANGED <<probes, arg, out, sess, stopCh, lsn, waiter, panic>>

\* ForwardPorts: bind the local listener on localPort; a failed bind closes the
\* connection and returns the error
FwdListen(s) ==
    /\ Live(s)
    /\ pc[s] = "dialed"
    /\ \/ /\ PortFree(sess[s].localPort)
          /\ lsn' = [lsn EXCEPT ![s] = TRUE]
          /\ pc' = [pc EXCEPT ![s] = "bound"]
          /\ UNCHANGED <<ret, readyCh, conn>>
       \/ /\ conn' = [conn EXCEPT ![s] = FALSE]
          /\ RunReturn(s, "listen")
          /\ UNCHANGED lsn
    /\ UNCHANGED <<probes, arg, out, sess, stopCh, dials, waiter, panic>>

\* ForwardPorts: close the ready channel
FwdReady(s) ==
    /\ Live(s)
    /\ pc[s] = "bound"
    /\ IF readyCh[s] = "closed"
       THEN Panic("readyCh") /\ UNCHANGED readyCh
       ELSE /\ readyCh' = [readyCh EXCEPT ![s] = "closed"]
            /\ pc' = [pc EXCEPT ![s] = "waiting"]
            /\ UNCHANGED <<panic, conn, lsn>>
    /\ UNCHANGED <<probes, arg, out, sess, stopCh, ret, dials, waiter>>

\* ForwardPorts: the stop channel is closed; release listener and connection
FwdStopped(s) ==
    /\ Live(s)
    /\ pc[s] = "waiting"
    /\ stopCh[s] = "closed"
    /\ conn' = [conn EXCEPT ![s] = FALSE]
    /\ lsn' = [lsn EXCEPT ![s] = FALSE]
    /\ RunReturn(s, "nil")
    /\ UNCHANGED <<probes, arg, out, sess, stopCh, dials, waiter, panic>>

\* ForwardPorts: the remote side closes the connection, or it is lost
FwdConnLost(s) ==
    /\ Live(s)
    /\ pc[s] = "waiting"
    /\ conn' = [conn EXCEPT ![s] = FALSE]
    /\ lsn' = [lsn EXCEPT ![s] = FALSE]
    /\ \E e \in {"nil", "lost"} : RunReturn(s, e)
    /\ UNCHANGED <<probes, arg, out, sess, stopCh, dials, waiter, panic>>

\* URLFor: "http://127.0.0.1:<localPort><path>", as the pieces of the format
URLFor(s, path) == <<"http://127.0.0.1:", sess[s].localPort, path>>

\* a caller blocked in <-pf.Ready() receives once the channel is closed
ReadyRecv(s) ==
    /\ Live(s)
    /\ waiter[s] = "blocked"
    /\ readyCh[s] = "closed"
    /\ waiter' = [waiter EXCEPT ![s] = "released"]
    /\ UNCHANGED <<probes, arg, out, sess, stopCh, readyCh, pc, ret, conn, lsn, dials, panic>>

\* a session is built for a selected pod
Construct(s) ==
    /\ ~sess[s].made
    /\ panic = "none"
    /\ \E lp \in {0} \cup UserPorts, rp \in RemotePorts :
          /\ arg' = [NoArg EXCEPT !.op = "newPortForward", !.localPort = lp,
                                  !.remotePort = rp]
          /\ newPortForward("newPortForward", s, <<"a">>, lp, rp)
    /\ UNCHANGED <<pc, ret, conn, lsn, dials, waiter, panic>>

---------------------------------------------------------------------------
(* Specifications *)

InitSessions ==
    /\ out = NoOut
    /\ sess = [s \in Sessions |-> NoSession]
    /\ stopCh = [s \in Sessions |-> "nil"]
    /\ readyCh = [s \in Sessions |-> "nil"]
    /\ pc = [s \in Sessions |-> "idle"]
    /\ ret = [s \in Sessions |-> "none"]
    /\ conn = [s \in Sessions |-> FALSE]
    /\ lsn = [s \in Sessions |-> FALSE]
    /\ dials = [s \in Sessions |-> 0]
    /\ waiter = [s \in Sessions |-> "blocked"]
    /\ panic = "none"
    /\ probes = 0

Init == arg = NoArg /\ InitSessions

Next ==
    \E s \in Sessions :
        \/ Construct(s)
        \/ RunSetup(s)
        \/ FwdDial(s)
        \/ FwdListen(s)
        \/ FwdReady(s)
        \/ FwdStopped(s)
        \/ FwdConnLost(s)
        \/ ReadyRecv(s)
        \/ Stop(s)

Spec == Init /\ [][Next]_vars

\* the forwarder's own steps are taken when they can be; the caller's calls and
\* the loss of the connection are not forced
RunStep(s) == FwdDial(s) \/ FwdListen(s) \/ FwdReady(s) \/ FwdStopped(s)

FairSpec == Spec /\ \A s \in Sessions : WF_vars(RunStep(s))

\* NewPortForward applied to every pod list, prefix and local port
SelectArgs ==
    {a \in [op : {"NewPortForward"}, listOk : BOOLEAN, items : PodLists,
            deployName : Prefixes, localPort : {0} \cup UserPorts,
            remotePort : RemotePorts, pod : {NoPod}] :
        a.listOk \/ (a.items = <<>> /\ a.deployName = <<>>)}

InitSelect == arg \in SelectArgs /\ InitSessions

CallNewPortForward ==
    /\ arg.op = "NewPortForward"
    /\ out.op = "none"
    /\ NewPortForward("A", arg.listOk, arg.items, arg.deployName, arg.localPort,
                      arg.remotePort)
    /\ UNCHANGED <<arg, pc, ret, conn, lsn, dials, waiter, panic>>

NextSelect == CallNewPortForward

SpecSelect == InitSelect /\ [][NextSelect]_vars

\* NewProxyMetricsForward applied to every pod
AdminArgs ==
    [op : {"NewProxyMetricsForward"}, listOk : {TRUE}, items : {<<>>},
     deployName : {<<>>}, localPort : {0}, remotePort : {0}, pod : ProxyPods]

InitAdmin == arg \in AdminArgs /\ InitSessions

CallNewProxyMetricsForward ==
    /\ arg.op = "NewProxyMetricsForward"
    /\ out.op = "none"
    /\ NewProxyMetricsForward("A", arg.pod)
    /\ UNCHANGED <<arg, pc, ret, conn, lsn, dials, waiter, panic>>

NextAdmin == CallNewProxyMetricsForward

SpecAdmin == InitAdmin /\ [][NextAdmin]_vars

\* both constructors, each applied to every input
InitCtor == arg \in SelectArgs \cup AdminArgs /\ InitSessions

NextCtor == CallNewPortForward \/ CallNewProxyMetricsForward

SpecCtor == InitCtor /\ [][NextCtor]_vars

---------------------------------------------------------------------------
(* Properties *)

\* the items of a pod list that are Running and whose name begins with the prefix
Matching(items, prefix) ==
    {i \in 1..Len(items) :
        /\ items[i].phase = "Running"
        /\ \E k \in 0..Len(items[i].name) : SubSeq(items[i].name, 1, k) = prefix}

\* C1: NewPortForward selects the first pod in list order that is Running and
\* whose name starts with the prefix, skipping the others; when no pod is both,
\* it fails with an error and returns no session.
C1_FirstRunningMatch ==
    (out.op = "NewPortForward" /\ arg.listOk) =>
        LET M == Matching(arg.items, arg.deployName) IN
        IF M = {}
        THEN out.err = "notfound" /\ out.pf = "nil" /\ ~sess["A"].made
        ELSE LET first == CHOOSE i \in M : \A j \in M : i <= j IN
             /\ out.err \in {"none", "alloc"}
             /\ out.err = "none" =>
                   /\ out.pf = "A"
                   /\ sess["A"].made
                   /\ sess["A"].podName = arg.items[first].name
             /\ out.err = "alloc" =>
                   arg.localPort = 0 /\ out.pf = "nil" /\ ~sess["A"].made

\* a pod with the prefix that is not Running was skipped for a later one
C1_Witness ==
    /\ out.op = "NewPortForward"
    /\ out.err = "none"
    /\ Len(arg.items) = 2
    /\ arg.deployName # <<>>
    /\ HasPrefix(arg.items[1].name, arg.deployName)
    /\ arg.items[1].phase = "Pending"
    /\ sess["A"].podName = arg.items[2].name

\* C2: calling Stop() twice on one session never panics: the stop channel is
\* closed at most once.
C2_StopTwiceNeverPanics == panic # "stopCh"

\* C3: a waiter on Ready() is released only once the ready channel is closed,
\* and the ready channel is closed only in a state where the run holds both the
\* upgraded connection and the bound local listener.
C3_ReadyAfterBindAndUpgrade ==
    /\ [](\A s \in Sessions : waiter[s] = "released" => readyCh[s] = "closed")
    /\ [][\A s \in Sessions :
            (readyCh[s] # "closed" /\ readyCh'[s] = "closed") =>
                lsn[s] /\ conn[s] /\ lsn'[s] /\ conn'[s]]_vars

C3_Witness == waiter["A"] = "released" /\ lsn["A"] /\ conn["A"]

UpgradeErrors == {"roundtripper", "new", "dial"}

\* C4: when the round tripper, the forwarder construction or the upgrade
\* handshake fails, Run has returned that error and the ready signal has not
\* fired.
C4_UpgradeFailureNotReady ==
    \A s \in Sessions :
        ret[s] \in UpgradeErrors =>
            pc[s] = "done" /\ readyCh[s] = "open" /\ waiter[s] = "blocked"

C4_Witness == ret["A"] = "dial" /\ ret["B"] = "new"

C6_StopLeadsToReturn ==
    \A s \in Sessions :
        (stopCh[s] = "closed" /\ pc[s] \in InProgress)
            ~> (pc[s] = "done" /\ ~lsn[s] /\ ~conn[s])

OpOn(a) ==
    \/ Construct(a) \/ RunSetup(a) \/ FwdDial(a) \/ FwdListen(a) \/ FwdReady(a)
    \/ FwdStopped(a) \/ FwdConnLost(a) \/ ReadyRecv(a) \/ Stop(a)

StateOf(b) ==
    <<sess[b], stopCh[b], readyCh[b], pc[b], ret[b], conn[b], lsn[b], dials[b],
      waiter[b]>>

\* C7: no operation on one session changes the state of another session: its
\* channels are untouched and its running Run() is neither unblocked nor ended.
C7_SessionsIndependent ==
    [][\A a, b \in Sessions : (a # b /\ OpOn(a)) => StateOf(b)' = StateOf(b)]_vars

C9_NoRetry ==
    \A s \in Sessions :
        /\ dials[s] <= 1
        /\ (dials[s] >= 1 /\ ~conn[s] /\ panic = "none") =>
              pc[s] = "done" /\ ret[s] \in {"nil", "lost", "dial", "listen"}
        /\ pc[s] = "done" => ~conn[s] /\ ~lsn[s] /\ ret[s] # "none"

C9_Witness == ret["A"] = "lost" /\ dials["A"] = 1 /\ ~conn["A"]

\* C10: for a Running pod NewProxyMetricsForward fails and returns no session
\* when no container has the proxy container name or that container has no port
\* with the admin port name; on success the remote port is the containerPort of
\* the admin port of the proxy container.
C10_AdminPortExact ==
    (out.op = "NewProxyMetricsForward" /\ arg.pod.phase = "Running") =>
        LET cs == arg.pod.containers
            proxies == {i \in 1..Len(cs) : cs[i].name = ProxyContainerName}
            targets == {cs[i].ports[j].containerPort :
                          <<i, j>> \in {t \in proxies \X (1..MaxPorts) :
                              /\ t[2] <= Len(cs[t[1]].ports)
                              /\ cs[t[1]].ports[t[2]].name = ProxyAdminPortName}}
        IN  /\ proxies = {} => out.err = "nocontainer"
            /\ (proxies # {} /\ targets = {}) => out.err = "noport"
            /\ out.err # "none" => out.pf = "nil" /\ ~sess["A"].made
            /\ out.err = "none" =>
                  /\ out.pf = "A"
                  /\ sess["A"].made
                  /\ sess["A"].remotePort \in targets

\* the proxy container has ports but not the admin port, and another container
\* declares a port of that name
C10_Witness ==
    /\ out.op = "NewProxyMetricsForward"
    /\ arg.pod.phase = "Running"
    /\ out.err = "noport"
    /\ Len(arg.pod.containers) = 2
    /\ arg.pod.containers[1].name # ProxyContainerName
    /\ Len(arg.pod.containers[1].ports) > 0
    /\ arg.pod.containers[1].ports[1].name = ProxyAdminPortName
    /\ Len(arg.pod.containers[2].ports) > 0

\* C11: a failed pod-list query and a query that finds no Running pod with the
\* prefix are reported as two different errors, each exactly in its own case,
\* and neither returns a session.
C11_ListErrorDistinct ==
    out.op = "NewPortForward" =>
        /\ out.err = "list" <=> ~arg.listOk
        /\ out.err = "notfound" <=>
              (arg.listOk /\ Matching(arg.items, arg.deployName) = {})
        /\ out.err \in {"list", "notfound"} => out.pf = "nil" /\ ~sess["A"].made

C11_Witness == out.op = "NewPortForward" /\ out.err = "list" /\ out.pf = "nil"

\* C12: construction calls the ephemeral port allocator exactly when the
\* requested localPort is 0; a non-zero localPort is stored unchanged, also when
\* a listener already holds that port; when the allocator fails, construction
\* returns that error and no session.
C12_AllocatorIffZero ==
    /\ out.op = "newPortForward" =>
          /\ out.alloc # "none" <=> arg.localPort = 0
          /\ arg.localPort # 0 =>
                /\ out.err = "none"
                /\ out.pf \in Sessions
                /\ sess[out.pf].localPort = arg.localPort
          /\ out.err = "alloc" <=> out.alloc \in {"listen", "addr"}
          /\ out.err = "alloc" => out.pf = "nil"
          /\ out.alloc = "ok" =>
                out.pf \in Sessions /\ sess[out.pf].localPort \in EphemeralPorts
    /\ \A s \in Sessions : \A p \in UserPorts :
          (~sess[s].made /\ panic = "none") =>
              ENABLED (Construct(s) /\ sess'[s].made /\ sess'[s].localPort = p)

\* B was given the port that A's listener holds
C12_Witness ==
    /\ out.op = "newPortForward"
    /\ out.pf = "B"
    /\ arg.localPort \in UserPorts
    /\ sess["B"].localPort = arg.localPort
    /\ pc["B"] = "idle"
    /\ lsn["A"]
    /\ sess["A"].localPort = arg.localPort

Paths == {"/metrics", "/ready"}

\* C13: once a session is constructed no operation changes its localPort,
\* remotePort or request target, and URLFor keeps reporting the port that the
\* construction fixed.
C13_SessionFieldsFixed ==
    /\ [][\A s \in Sessions : sess[s].made =>
            /\ sess'[s] = sess[s]
            /\ \A path \in Paths : URLFor(s, path)' = URLFor(s, path)]_vars
    /\ [](\A path \in Paths :
            (out.op = "newPortForward" /\ out.err = "none" /\ arg.localPort # 0) =>
                URLFor(out.pf, path) = <<"http://127.0.0.1:", arg.localPort, path>>)

\* a session with a caller-given port after Run, Ready and Stop have all acted
C13_Witness ==
    /\ sess["A"].made
    /\ sess["A"].localPort \in UserPorts
    /\ pc["A"] = "done"
    /\ stopCh["A"] = "closed"
    /\ waiter["A"] = "released"

\* C14: the first Stop() of a session can be taken in every state of its Run()
\* task (not started, in progress, returned) without waiting for it, and it
\* closes the stop channel without a panic and without touching the task.
C14_SingleStopSafe ==
    /\ [](\A s \in Sessions :
            (Live(s) /\ stopCh[s] = "open") =>
                ENABLED (Stop(s) /\ stopCh'[s] = "closed" /\ panic' = "none"))
    /\ [][\A s \in Sessions :
            (stopCh[s] = "open" /\ stopCh'[s] = "closed") =>
                panic' = "none" /\ pc' = pc /\ conn' = conn /\ lsn' = lsn]_vars

\* Stop was called on a session whose Run ended on its own
C14_Witness ==
    /\ stopCh["A"] = "closed"
    /\ ret["A"] = "lost"
    /\ panic = "none"

Chans == {"nil", "open", "closed"}
Positions == {"idle", "fw", "dialed", "bound", "waiting", "done", "killed"}
Results == {"none", "nil", "lost", "roundtripper", "new", "dial", "listen"}

\* the state of a session without the value of its localPort
View(s) ==
    <<sess[s].made, sess[s].podName, sess[s].remotePort, stopCh[s], readyCh[s],
      pc[s], ret[s], conn[s], lsn[s], dials[s], waiter[s]>>

\* a step of operation Op on session a can be taken as the same operation on
\* session b, and leaves b in the state it leaves a in, localPort aside
Mirrored(Op(_), a, b) ==
    Op(a) =>
        \E sc \in Chans : sc = stopCh'[a] /\
        \E rc \in Chans : rc = readyCh'[a] /\
        \E p \in Positions : p = pc'[a] /\
        \E r \in Results : r = ret'[a] /\
        \E c \in BOOLEAN : c = conn'[a] /\
        \E l \in BOOLEAN : l = lsn'[a] /\
        \E d \in 0..MaxDials : d = dials'[a] /\
        \E w \in {"blocked", "released"} : w = waiter'[a] /\
            ENABLED (/\ Op(b)
                     /\ stopCh'[b] = sc /\ readyCh'[b] = rc /\ pc'[b] = p
                     /\ ret'[b] = r /\ conn'[b] = c /\ lsn'[b] = l
                     /\ dials'[b] = d /\ waiter'[b] = w
                     /\ sess'[b] = sess[b])

\* C15: a session built with localPort 0 and a session built with a port of the
\* caller start in the same state but for the value of localPort, and from equal
\* states every step of the one (Run's steps, Ready, Stop) is a step the other
\* can take to an equal state.
C15_AutoAndExplicitPortAlike ==
    /\ [][\A s \in Sessions : (~sess[s].made /\ sess'[s].made) =>
            /\ View(s)' = <<TRUE, <<"a">>, arg'.remotePort, "open", "open", "idle",
                            "none", FALSE, FALSE, 0, "blocked">>
            /\ IF arg'.localPort = 0
               THEN sess'[s].localPort \in EphemeralPorts
               ELSE sess'[s].localPort = arg'.localPort]_vars
    /\ [][\A a, b \in Sessions :
            (/\ sess[a].made /\ sess[b].made
             /\ sess[a].localPort # sess[b].localPort
             /\ View(a) = View(b)) =>
                /\ Mirrored(RunSetup, a, b)
                /\ Mirrored(FwdDial, a, b)
                /\ Mirrored(FwdListen, a, b)
                /\ Mirrored(FwdReady, a, b)
                /\ Mirrored(FwdStopped, a, b)
                /\ Mirrored(FwdConnLost, a, b)
                /\ Mirrored(ReadyRecv, a, b)
                /\ Mirrored(Stop, a, b)]_vars

\* both sessions went from construction through readiness and Stop to the
\* return of Run, in step
C15_Witness ==
    /\ sess["A"].made /\ sess["A"].localPort \in EphemeralPorts
    /\ sess["B"].made /\ sess["B"].localPort \in UserPorts
    /\ View("A") = View("B")
    /\ pc["A"] = "done" /\ ret["A"] = "nil"
    /\ stopCh["A"] = "closed" /\ waiter["A"] = "released"

\* the containerPort values of the admin ports of the proxy containers of a pod
AdminTargets(pod) ==
    {pod.containers[t[1]].ports[t[2]].containerPort :
        t \in {u \in (1..Len(pod.containers)) \X (1..MaxPorts) :
                 /\ pod.containers[u[1]].name = ProxyContainerName
                 /\ u[2] <= Len(pod.containers[u[1]].ports)
                 /\ pod.containers[u[1]].ports[u[2]].name = ProxyAdminPortName}}

HasProxy(pod) ==
    \E i \in 1..Len(pod.containers) : pod.containers[i].name = ProxyContainerName

\* C16 as stated: NewProxyMetricsForward does not look at the phase of the pod,
\* its outcome is decided by the declared containers and ports alone.
C16_PhaseNotVerified ==
    out.op = "NewProxyMetricsForward" =>
        /\ out.err = "nocontainer" <=> ~HasProxy(arg.pod)
        /\ out.err = "noport" <=> (HasProxy(arg.pod) /\ AdminTargets(arg.pod) = {})
        /\ AdminTargets(arg.pod) # {} => out.err \in {"none", "alloc"}

\* C16: NewProxyMetricsForward verifies the phase itself: a pod that is not
\* Running is refused as not running, whatever its containers and ports, and no
\* session is built; for a Running pod the outcome of the selection is decided
\* by the declared containers and ports alone.
C16_PhaseVerifiedFirst ==
    out.op = "NewProxyMetricsForward" =>
        /\ out.err = "notrunning" <=> arg.pod.phase # "Running"
        /\ arg.pod.phase # "Running" =>
              /\ out.pf = "nil" /\ out.alloc = "none"
              /\ ~sess["A"].made /\ stopCh["A"] = "nil" /\ readyCh["A"] = "nil"
        /\ arg.pod.phase = "Running" =>
              /\ out.err = "nocontainer" <=> ~HasProxy(arg.pod)
              /\ out.err = "noport" <=>
                    (HasProxy(arg.pod) /\ AdminTargets(arg.pod) = {})
              /\ AdminTargets(arg.pod) # {} => out.err \in {"none", "alloc"}

\* a pod that declares the proxy container and its admin port, but is not Running
C16_Witness ==
    /\ out.op = "NewProxyMetricsForward"
    /\ out.err = "notrunning"
    /\ arg.pod.phase = "Pending"
    /\ AdminTargets(arg.pod) # {}

\* C17: when the selection fails (no Running pod with the prefix, no proxy
\* container, no admin port) the constructor returns its error before a session
\* is built: the port allocator was not called, no socket is open, and the
\* session has neither a stop nor a ready channel.
C17_SelectionFailsBeforeBuild ==
    out.err \in {"notfound", "nocontainer", "noport"} =>
        /\ out.pf = "nil"
        /\ out.alloc = "none"
        /\ probes = 0
        /\ \A s \in Sessions :
              /\ ~sess[s].made
              /\ stopCh[s] = "nil" /\ readyCh[s] = "nil"
              /\ ~lsn[s] /\ ~conn[s]

\* an automatic port was asked for, and the only pod with the prefix is Pending
C17_Witness ==
    /\ out.op = "NewPortForward"
    /\ out.err = "notfound"
    /\ arg.localPort = 0
    /\ Len(arg.items) = 1
    /\ arg.items[1].phase = "Pending"
    /\ HasPrefix(arg.items[1].name, arg.deployName)

\* C18: getEphemeralPort leaves no listen socket open on any of its exit paths
\* (a port returned, the listen failed, the bound address is no TCP address), so
\* however many times it was called and however many sessions were built with
\* localPort 0, no probe socket is open.
C18_ProbeSocketReleased == probes = 0

\* session A was built on a port of the allocator, and a later call of the
\* allocator for session B left on the path of the address that is no TCP address
C18_Witness ==
    /\ sess["A"].made /\ sess["A"].localPort \in EphemeralPorts
    /\ out.op = "newPortForward" /\ out.alloc = "addr"
    /\ ~sess["B"].made

====
